---- MODULE Spec2Model ----
(***************************************************************************)
(* A model of fda_recalls_bot.py: the text classifiers, the priority       *)
(* engine, the novelty detector and the run of main() against the          *)
(* snapshot file previous_recalls.json.                                    *)
(*                                                                         *)
(* Python strings are TLA+ strings (sequences of characters); Python       *)
(* dicts with optional keys are records whose DOMAIN holds the keys that   *)
(* are present; Python lists are sequences.                                *)
(***************************************************************************)
EXTENDS Integers, Sequences, FiniteSets, TLC

VARIABLES
    \* ---- one classification pass over a recall (format_recall_for_slack) ----
    recall,            \* the recall record handed to the classifiers
    cls_pc,            \* "input" before the classifiers ran, "classified" after
    recall_type,       \* result of categorize_recall_type
    allergens,         \* result of categorize_allergen
    priority,          \* result of determine_priority
    states,            \* result of extract_states
    \* ---- one call of identify_new_recalls ----
    current,           \* its argument current_recalls
    previous,          \* its argument previous_recalls
    result,            \* the list it returned
    new_pc,            \* "input" before the call, "returned" after
    \* ---- runs of main() ----
    pc,                        \* the position of the run in main()
    file,                      \* previous_recalls.json: [state, recalls]
    should_use_slack,          \* line 445
    api_recalls,               \* line 464
    previous_recalls,          \* line 472
    new_recalls,               \* line 476
    notification_limit,        \* line 483
    prioritized_recalls,       \* line 487
    loop_i,                    \* how many of prioritized_recalls[:notification_limit] the loop of line 502 has handled
    successful_notifications,  \* line 500
    deliveries,                \* the messages of this run handed to Slack or printed, in order
    steps,                     \* the steps of this run, in the order they were taken
    snapshot_at_start,         \* the file as the run found it
    previous_fetch             \* what the run before this one fetched

clsVars == <<recall, cls_pc, recall_type, allergens, priority, states>>
newVars == <<current, previous, result, new_pc>>
runVars == <<pc, file, should_use_slack, api_recalls, previous_recalls, new_recalls,
             notification_limit, prioritized_recalls, loop_i, successful_notifications,
             deliveries, steps, snapshot_at_start, previous_fetch>>

vars == <<clsVars, newVars, runVars>>

-----------------------------------------------------------------------------
(* Python built-ins used by the program *)

Min(a, b) == IF a <= b THEN a ELSE b

\* dict.get(key, default)
Get(d, key, default) == IF key \in DOMAIN d THEN d[key] ELSE default

UpperChars == "ABCDEFGHIJKLMNOPQRSTUVWXYZ"
LowerChars == "abcdefghijklmnopqrstuvwxyz"

CharAt(s, i) == SubSeq(s, i, i)

\* the lower-case letter of each upper-case letter
LowerTable ==
    [c \in {CharAt(UpperChars, i) : i \in 1..Len(UpperChars)} |->
        CharAt(LowerChars, CHOOSE i \in 1..Len(UpperChars) : CharAt(UpperChars, i) = c)]

LowerChar(c) == IF c \in DOMAIN LowerTable THEN LowerTable[c] ELSE c

\* str.lower()
RECURSIVE Lower(_)
Lower(s) ==
    IF Len(s) = 0 THEN ""
    ELSE LowerChar(CharAt(s, 1)) \o Lower(SubSeq(s, 2, Len(s)))

\* keyword in text
Contains(text, keyword) ==
    \E i \in 1..(Len(text) - Len(keyword) + 1) :
        SubSeq(text, i, i + Len(keyword) - 1) = keyword

\* any(keyword in text for keyword in keywords)
AnyIn(text, keywords) ==
    \E k \in 1..Len(keywords) : Contains(text, keywords[k])

-----------------------------------------------------------------------------
(* categorize_allergen: every allergen group with a keyword in the text,   *)
(* in the order of the allergens dict                                      *)

allergen_groups ==
    << [name |-> "milk",       keywords |-> <<"milk", "dairy", "lactose", "whey">>],
       [name |-> "eggs",       keywords |-> <<"egg">>],
       [name |-> "fish",       keywords |-> <<"fish", "shellfish", "seafood">>],
       [name |-> "crustacean", keywords |-> <<"crab", "lobster", "shrimp", "crustacean">>],
       [name |-> "tree nuts",  keywords |-> <<"almond", "walnut", "cashew", "pecan",
                                              "pistachio", "hazelnut", "macadamia", "tree nut">>],
       [name |-> "peanuts",    keywords |-> <<"peanut", "arachis">>],
       [name |-> "wheat",      keywords |-> <<"wheat", "gluten">>],
       [name |-> "soy",        keywords |-> <<"soy", "soya", "soybean">>],
       [name |-> "sesame",     keywords |-> <<"sesame">>],
       [name |-> "sulfites",   keywords |-> <<"sulfite", "sulphite">> ] >>

GroupMatches(group, text) == AnyIn(text, group.keywords)

categorize_allergen(reason) ==
    LET text  == Lower(reason)
        found == SelectSeq(allergen_groups, LAMBDA g : GroupMatches(g, text))
    IN  [i \in 1..Len(found) |-> found[i].name]

-----------------------------------------------------------------------------
(* categorize_recall_type: the first group of the patterns dict, in its    *)
(* insertion order, with a keyword in the lowered text; "other" otherwise  *)

patterns ==
    << [name |-> "allergen",         keywords |-> <<"undeclared", "allergen", "allergic", "allergy">>],
       [name |-> "bacteria",         keywords |-> <<"listeria", "e. coli", "e.coli", "salmonella",
                                                    "botulism", "clostridium">>],
       [name |-> "foreign_material", keywords |-> <<"foreign", "metal", "plastic", "glass", "wood",
                                                    "extraneous material">>],
       [name |-> "mislabeling",      keywords |-> <<"mislabel", "misbranded", "incorrect label",
                                                    "improper label">>],
       [name |-> "quality",          keywords |-> <<"quality", "mold", "spoilage", "deterioration">>],
       [name |-> "processing",       keywords |-> <<"processing", "underprocessed", "under-processed",
                                                    "temperature abuse">>],
       [name |-> "unauthorized",     keywords |-> <<"unapproved", "unauthorized", "not approved",
                                                    "illegal">>] >>

\* the for loop of lines 101-103 from group k on: return at the first match
RECURSIVE FirstMatch(_, _)
FirstMatch(text, k) ==
    IF k > Len(patterns) THEN "other"
    ELSE IF AnyIn(text, patterns[k].keywords) THEN patterns[k].name
    ELSE FirstMatch(text, k + 1)

\* categorize_recall_type without the lowering of line 87
categorize_recall_type_case_sensitive(reason) == FirstMatch(reason, 1)

categorize_recall_type(reason) == FirstMatch(Lower(reason), 1)

-----------------------------------------------------------------------------
(* determine_priority: an ordered decision list over the lowered reason    *)
(* and the lowered classification                                          *)

pathogen_terms == <<"listeria", "e. coli", "e.coli", "salmonella", "botulism">>
allergen_terms == <<"peanut", "tree nut", "milk", "egg">>
health_terms   == <<"undeclared", "allergen">>

\* line 113: 'class i' in classification.lower()
IsClassI(classification) == Contains(Lower(classification), "class i")

\* lines 125, 129: 'class ii' in classification.lower()
IsClassII(classification) == Contains(Lower(classification), "class ii")

\* line 117
HasPathogen(reason) == AnyIn(reason, pathogen_terms)

\* line 121
HasCommonAllergen(reason) == AnyIn(reason, allergen_terms)

\* determine_priority with the Class II rules tried before the severity rules
determine_priority_class_ii_first(r) ==
    LET reason         == Lower(Get(r, "reason_for_recall", ""))
        classification == Get(r, "classification", "")
    IN  IF IsClassII(classification) THEN "medium"
        ELSE IF IsClassI(classification) THEN "high"
        ELSE IF HasPathogen(reason) THEN "high"
        ELSE IF HasCommonAllergen(reason) THEN "high"
        ELSE "low"

\* determine_priority without the pathogen rule of line 117
determine_priority_no_pathogen(r) ==
    LET reason         == Lower(Get(r, "reason_for_recall", ""))
        classification == Get(r, "classification", "")
    IN  IF IsClassI(classification) THEN "high"
        ELSE IF HasCommonAllergen(reason) THEN "high"
        ELSE IF IsClassII(classification) THEN "medium"
        ELSE "low"

determine_priority(r) ==
    LET reason         == Lower(Get(r, "reason_for_recall", ""))
        classification == Get(r, "classification", "")
    IN  IF IsClassI(classification) THEN "high"
        ELSE IF HasPathogen(reason) THEN "high"
        ELSE IF HasCommonAllergen(reason) THEN "high"
        ELSE IF IsClassII(classification) /\ AnyIn(reason, health_terms) THEN "medium"
        ELSE IF IsClassII(classification) THEN "medium"
        ELSE "low"

-----------------------------------------------------------------------------
(* extract_states *)

state_abbrs ==
    << "AL", "AK", "AZ", "AR", "CA", "CO", "CT", "DE", "FL", "GA",
       "HI", "ID", "IL", "IN", "IA", "KS", "KY", "LA", "ME", "MD",
       "MA", "MI", "MN", "MS", "MO", "MT", "NE", "NV", "NH", "NJ",
       "NM", "NY", "NC", "ND", "OH", "OK", "OR", "PA", "RI", "SC",
       "SD", "TN", "TX", "UT", "VT", "VA", "WA", "WV", "WI", "WY", "DC" >>

state_names ==
    << "Alabama", "Alaska", "Arizona", "Arkansas", "California", "Colorado",
       "Connecticut", "Delaware", "Florida", "Georgia", "Hawaii", "Idaho",
       "Illinois", "Indiana", "Iowa", "Kansas", "Kentucky", "Louisiana",
       "Maine", "Maryland", "Massachusetts", "Michigan", "Minnesota",
       "Mississippi", "Missouri", "Montana", "Nebraska", "Nevada",
       "New Hampshire", "New Jersey", "New Mexico", "New York",
       "North Carolina", "North Dakota", "Ohio", "Oklahoma", "Oregon",
       "Pennsylvania", "Rhode Island", "South Carolina", "South Dakota",
       "Tennessee", "Texas", "Utah", "Vermont", "Virginia", "Washington",
       "West Virginia", "Wisconsin", "Wyoming", "District of Columbia" >>

\* the characters the regex class \w matches in the texts considered
WordChars == UpperChars \o LowerChars \o "0123456789_"

IsWordChar(c) == \E i \in 1..Len(WordChars) : CharAt(WordChars, i) = c

\* re.search(r'(?:^|\W)' + abbr + r'(?:$|\W)', text)
AbbrFound(text, abbr) ==
    \E i \in 1..(Len(text) - Len(abbr) + 1) :
        /\ SubSeq(text, i, i + Len(abbr) - 1) = abbr
        /\ (i = 1 \/ ~IsWordChar(CharAt(text, i - 1)))
        /\ (i + Len(abbr) - 1 = Len(text) \/ ~IsWordChar(CharAt(text, i + Len(abbr))))

\* state_names.index(state): the first index holding the name
NameIndex(name) == CHOOSE i \in 1..Len(state_names) :
                      /\ state_names[i] = name
                      /\ \A j \in 1..(i - 1) : state_names[j] # name

\* state.lower() of line 171, for each name
state_names_lower == [i \in 1..Len(state_names) |-> Lower(state_names[i])]

\* the set found_states of lines 156-174
found_states(distribution_pattern) ==
    LET lowered == Lower(distribution_pattern)
    IN  {state_abbrs[i] : i \in {j \in 1..Len(state_abbrs) :
                                    AbbrFound(distribution_pattern, state_abbrs[j])}}
        \cup
        {state_abbrs[NameIndex(state_names[i])] :
            i \in {j \in 1..Len(state_names) : Contains(lowered, state_names_lower[j])}}

\* sorted(list(found_states)): the abbreviations are two upper-case letters,
\* ordered by their letters
LetterRank(c) == CHOOSE i \in 1..Len(UpperChars) : CharAt(UpperChars, i) = c

AbbrLess(a, b) ==
    \/ LetterRank(CharAt(a, 1)) < LetterRank(CharAt(b, 1))
    \/ /\ CharAt(a, 1) = CharAt(b, 1)
       /\ LetterRank(CharAt(a, 2)) < LetterRank(CharAt(b, 2))

RECURSIVE SortedAbbrs(_)
SortedAbbrs(S) ==
    IF S = {} THEN <<>>
    ELSE LET least == CHOOSE a \in S : \A b \in S \ {a} : AbbrLess(a, b)
         IN  <<least>> \o SortedAbbrs(S \ {least})

\* extract_states with the test of line 159 made on the text as it is
extract_states_case_sensitive(distribution_pattern) ==
    LET found == found_states(distribution_pattern)
    IN  IF \/ Contains(distribution_pattern, "nationwide")
           \/ Contains(distribution_pattern, "national")
        THEN <<"Nationwide">>
        ELSE IF found = {} THEN <<"Unspecified">>
        ELSE SortedAbbrs(found)

extract_states(distribution_pattern) ==
    LET lowered == Lower(distribution_pattern)
        found   == found_states(distribution_pattern)
    IN  IF Contains(lowered, "nationwide") \/ Contains(lowered, "national")
        THEN <<"Nationwide">>
        ELSE IF found = {} THEN <<"Unspecified">>
        ELSE SortedAbbrs(found)

-----------------------------------------------------------------------------
(* Recall records: dicts in which any field may be absent *)

EmptyDict == [k \in {} |-> ""]

\* dict(a, **b)
Merge(a, b) == [k \in DOMAIN a \cup DOMAIN b |-> IF k \in DOMAIN b THEN b[k] ELSE a[k]]

\* the dict cut down to the keys of keys
Restrict(d, keys) == [k \in DOMAIN d \cap keys |-> d[k]]

\* the dicts holding at most the one key, with a value of values
OptionalField(key, values) == {EmptyDict} \cup {[k \in {key} |-> v] : v \in values}

-----------------------------------------------------------------------------
(* identify_new_recalls *)

\* Python's None, as the value of most_recent_date: no date text equals it
None == "None"

\* the truth value Python gives a string or None
Truthy(x) == x # None /\ x # ""

\* the code points of the characters of a report_date, in their order
Digits == "0123456789"
CharCode(c) == CHOOSE i \in 1..Len(Digits) : CharAt(Digits, i) = c

\* a < b on Python strings: lexicographic by code point, a proper prefix first
RECURSIVE StrLess(_, _)
StrLess(a, b) ==
    IF Len(b) = 0 THEN FALSE
    ELSE IF Len(a) = 0 THEN TRUE
    ELSE IF CharAt(a, 1) = CharAt(b, 1)
         THEN StrLess(SubSeq(a, 2, Len(a)), SubSeq(b, 2, Len(b)))
         ELSE CharCode(CharAt(a, 1)) < CharCode(CharAt(b, 1))

\* key=lambda x: x.get('report_date', '00000000')
DateKey(r) == Get(r, "report_date", "00000000")

\* the records of seq in descending order of their keys, records of equal keys
\* in the order seq has them: what a stable sort with reverse=True returns
RECURSIVE ByDateKeysDesc(_, _)
ByDateKeysDesc(seq, keys) ==
    IF keys = {} THEN <<>>
    ELSE LET top == CHOOSE k \in keys : \A o \in keys \ {k} : StrLess(o, k)
         IN  SelectSeq(seq, LAMBDA r : DateKey(r) = top) \o ByDateKeysDesc(seq, keys \ {top})

\* sorted(seq, key=..., reverse=True) without the ordering: the list as it is
SortByDateDesc_unsorted(seq) == seq

\* sorted(seq, key=lambda x: x.get('report_date', '00000000'), reverse=True)
SortByDateDesc(seq) == ByDateKeysDesc(seq, {DateKey(seq[k]) : k \in 1..Len(seq)})

\* line 268: the keys of previous_products
previous_products(previous_list) ==
    {Get(previous_list[i], "product_description", "") : i \in 1..Len(previous_list)}

\* lines 271-280
most_recent_date(previous_list) ==
    IF previous_list = <<>> THEN None
    ELSE Get(SortByDateDesc(previous_list)[1], "report_date", None)

\* line 290 with >= for >
IsNewRecall_or_equal(r, products, most_recent) ==
    \/ Get(r, "product_description", "") \notin products
    \/ /\ Truthy(most_recent)
       /\ ~StrLess(Get(r, "report_date", "00000000"), most_recent)

\* line 290
IsNewRecall(r, products, most_recent) ==
    \/ Get(r, "product_description", "") \notin products
    \/ /\ Truthy(most_recent)
       /\ StrLess(most_recent, Get(r, "report_date", "00000000"))

identify_new_recalls(current_list, previous_list) ==
    LET products    == previous_products(previous_list)
        most_recent == most_recent_date(previous_list)
        kept        == SelectSeq(current_list, LAMBDA r : IsNewRecall(r, products, most_recent))
    IN  SortByDateDesc(kept)

SeqsUpTo(S, n) == UNION {[1..k -> S] : k \in 0..n}

-----------------------------------------------------------------------------
(* The snapshot file and the fetch *)

MissingFile == [state |-> "missing", recalls |-> <<>>]
CorruptFile == [state |-> "corrupt", recalls |-> <<>>]
JsonFile(recalls) == [state |-> "json", recalls |-> recalls]

\* load_previous_recalls: FileNotFoundError and JSONDecodeError give []
load_previous_recalls(f) == IF f.state = "json" THEN f.recalls ELSE <<>>

\* save_previous_recalls: the file is rewritten with the list
save_previous_recalls(recalls) == JsonFile(recalls)

SnapshotLimit == 50
FetchLimit == 100

\* api_recalls[:50] of line 480, without the slice
SnapshotWindow_unbounded(recalls) == recalls

\* api_recalls[:50] of line 480
SnapshotWindow(recalls) == SubSeq(recalls, 1, Min(SnapshotLimit, Len(recalls)))

\* what the request of line 46 can come to: an exception (transport failure, HTTP
\* error status, a body that is no JSON), a JSON body without "results", or a JSON
\* body with the list "results"
Response(kind, results) == [kind |-> kind, results |-> results]

\* get_recalls_from_api, lines 45-60
get_recalls_from_api(response) ==
    IF response.kind = "results" THEN response.results ELSE <<>>

\* the records the API serves in the runs considered
RecallPool ==
    { [ product_description |-> "cheese", report_date |-> "20240201",
        reason_for_recall |-> "Listeria monocytogenes contamination",
        classification |-> "Class I" ],
      [ product_description |-> "cheese", report_date |-> "20240115",
        reason_for_recall |-> "undeclared peanut allergen",
        classification |-> "Class II" ],
      [ product_description |-> "salad", report_date |-> "20240115",
        reason_for_recall |-> "Elevated lead levels",
        classification |-> "Not Yet Classified" ],
      [ product_description |-> "bread", report_date |-> "20231220",
        reason_for_recall |-> "Pieces of plastic; product mislabeled",
        classification |-> "Class III" ] }

MaxFetch == 2

\* the request asks for sort=report_date:desc (line 29)
DateDescending(seq) ==
    \A k \in 1..(Len(seq) - 1) : ~StrLess(seq[k].report_date, seq[k + 1].report_date)

ShortFetches == {f \in SeqsUpTo(RecallPool, MaxFetch) : DateDescending(f)}

\* the n-th record of a fetch longer than the snapshot
LongRecall(n) ==
    [ product_description |-> "lot " \o ToString(n),
      report_date |-> IF n <= SnapshotLimit THEN "20240201" ELSE "20240115",
      reason_for_recall |-> IF n % 2 = 0 THEN "Mold" ELSE "egg",
      classification |-> "" ]

LongFetch(n) == [k \in 1..n |-> LongRecall(k)]

\* fetches of the size of the snapshot, one more, and the request's limit
LongFetches == {LongFetch(SnapshotLimit), LongFetch(SnapshotLimit + 1), LongFetch(FetchLimit)}

Responses ==
    {Response("exception", <<>>), Response("no_results", <<>>)}
    \cup {Response("results", f) : f \in ShortFetches \cup LongFetches}

-----------------------------------------------------------------------------
(* Prioritization, lines 487-494 *)

IsDigit(c) == \E k \in 1..Len(Digits) : CharAt(Digits, k) = c
DigitValue(c) == CharCode(c) - 1

RECURSIVE Number(_)
Number(s) == IF Len(s) = 0 THEN 0
             ELSE 10 * Number(SubSeq(s, 1, Len(s) - 1)) + DigitValue(CharAt(s, Len(s)))

DaysIn(year, month) ==
    IF month \in {4, 6, 9, 11} THEN 30
    ELSE IF month # 2 THEN 31
    ELSE IF (year % 4 = 0 /\ year % 100 # 0) \/ year % 400 = 0 THEN 29
    ELSE 28

\* datetime.strptime(text, "%Y%m%d") succeeds on eight digits naming a day
IsDate(text) ==
    /\ Len(text) = 8
    /\ \A k \in 1..8 : IsDigit(CharAt(text, k))
    /\ Number(SubSeq(text, 1, 4)) >= 1
    /\ Number(SubSeq(text, 5, 6)) \in 1..12
    /\ Number(SubSeq(text, 7, 8)) \in 1..DaysIn(Number(SubSeq(text, 1, 4)), Number(SubSeq(text, 5, 6)))

\* get_recall_date, lines 297-301, as the number YYYYMMDD of the day: days are in
\* the order of these numbers, and so are their timestamps
get_recall_date(r) ==
    IF "report_date" \in DOMAIN r /\ IsDate(r.report_date)
    THEN Number(r.report_date)
    ELSE 19000101

\* lines 490-492: the sort key of a recall
PriorityKey(r) ==
    << IF determine_priority(r) = "high" THEN 0
       ELSE IF determine_priority(r) = "medium" THEN 1 ELSE 2,
       0 - get_recall_date(r) >>

\* a < b on Python tuples of two numbers
KeyLess(a, b) == a[1] < b[1] \/ (a[1] = b[1] /\ a[2] < b[2])

\* the records of seq in ascending order of their keys, records of equal keys in
\* the order seq has them: what a stable sort returns
RECURSIVE ByPriorityKeys(_, _)
ByPriorityKeys(seq, keys) ==
    IF keys = {} THEN <<>>
    ELSE LET least == CHOOSE k \in keys : \A o \in keys \ {k} : KeyLess(k, o)
         IN  SelectSeq(seq, LAMBDA r : PriorityKey(r) = least) \o ByPriorityKeys(seq, keys \ {least})

\* sorted(new_recalls, key=lambda r: (..., -get_recall_date(r).timestamp()))
Prioritized(recalls) == ByPriorityKeys(recalls, {PriorityKey(recalls[k]) : k \in 1..Len(recalls)})

\* prioritized_recalls[:notification_limit], for a limit that is no less than 0
Selected(recalls, limit) == SubSeq(recalls, 1, Min(limit, Len(recalls)))

\* lines 510-511 with the tally raised whatever send_to_slack returned
TallyAfter_always(tally, success) == tally + 1

\* lines 510-511
TallyAfter(tally, success) == IF success THEN tally + 1 ELSE tally

\* line 467: not api_recalls, never true
NoRecalls_never(recalls) == FALSE

\* line 467: not api_recalls
NoRecalls(recalls) == recalls = <<>>

\* sorted(api_recalls, key=get_recall_date, reverse=True)[0] of line 542: the first
\* of the records with the latest date
Newest(recalls) ==
    recalls[CHOOSE k \in 1..Len(recalls) :
               /\ \A j \in 1..Len(recalls) : get_recall_date(recalls[j]) <= get_recall_date(recalls[k])
               /\ \A j \in 1..(k - 1) : get_recall_date(recalls[j]) < get_recall_date(recalls[k])]

-----------------------------------------------------------------------------
(* main(): one action for each step of a run *)

MaxLimit == 2

\* what send_to_slack can return with a token set: True, or False after a
\* SlackApiError or any other exception
SendOutcomes == BOOLEAN

Init ==
    /\ pc = "ready"
    /\ file \in {MissingFile, CorruptFile}
    /\ should_use_slack = FALSE
    /\ api_recalls = <<>>
    /\ previous_recalls = <<>>
    /\ new_recalls = <<>>
    /\ notification_limit = 0
    /\ prioritized_recalls = <<>>
    /\ loop_i = 0
    /\ successful_notifications = 0
    /\ deliveries = <<>>
    /\ steps = <<>>
    /\ snapshot_at_start = file
    /\ previous_fetch = <<>>
    \* the other parts of the program are not run
    /\ recall = EmptyDict
    /\ cls_pc = "idle"
    /\ recall_type = ""
    /\ allergens = <<>>
    /\ priority = ""
    /\ states = <<>>
    /\ current = <<>>
    /\ previous = <<>>
    /\ result = <<>>
    /\ new_pc = "idle"

\* the process is started (again): lines 441-461
Start ==
    /\ pc \in {"ready", "done"}
    /\ pc' = "fetch"
    /\ should_use_slack' \in BOOLEAN
    /\ api_recalls' = <<>>
    /\ previous_recalls' = <<>>
    /\ new_recalls' = <<>>
    /\ notification_limit' = 0
    /\ prioritized_recalls' = <<>>
    /\ loop_i' = 0
    /\ successful_notifications' = 0
    /\ deliveries' = <<>>
    /\ steps' = <<>>
    /\ snapshot_at_start' = file
    /\ previous_fetch' = api_recalls
    /\ UNCHANGED <<clsVars, newVars, file>>

\* line 464
Fetch ==
    /\ pc = "fetch"
    /\ \E response \in Responses : api_recalls' = get_recalls_from_api(response)
    /\ steps' = Append(steps, "fetch")
    /\ pc' = "fetched"
    /\ UNCHANGED <<clsVars, newVars, file, should_use_slack, previous_recalls, new_recalls, notification_limit,
                   prioritized_recalls, loop_i, successful_notifications, deliveries, snapshot_at_start, previous_fetch>>

\* lines 467-469
ReturnOnEmpty ==
    /\ pc = "fetched"
    /\ NoRecalls(api_recalls)
    /\ pc' = "done"
    /\ UNCHANGED <<clsVars, newVars, file, should_use_slack, api_recalls, previous_recalls, new_recalls,
                   notification_limit, prioritized_recalls, loop_i, successful_notifications,
                   deliveries, steps, snapshot_at_start, previous_fetch>>

\* line 472
Load ==
    /\ pc = "fetched"
    /\ ~NoRecalls(api_recalls)
    /\ previous_recalls' = load_previous_recalls(file)
    /\ steps' = Append(steps, "load")
    /\ pc' = "loaded"
    /\ UNCHANGED <<clsVars, newVars, file, should_use_slack, api_recalls, new_recalls, notification_limit,
                   prioritized_recalls, loop_i, successful_notifications, deliveries, snapshot_at_start, previous_fetch>>

\* line 476
Identify ==
    /\ pc = "loaded"
    /\ new_recalls' = identify_new_recalls(api_recalls, previous_recalls)
    /\ steps' = Append(steps, "identify")
    /\ pc' = "identified"
    /\ UNCHANGED <<clsVars, newVars, file, should_use_slack, api_recalls, previous_recalls, notification_limit,
                   prioritized_recalls, loop_i, successful_notifications, deliveries, snapshot_at_start, previous_fetch>>

\* line 480 left out: the run goes on without writing the file
Save_skipped ==
    /\ pc = "identified"
    /\ pc' = "saved"
    /\ UNCHANGED <<clsVars, newVars, file, should_use_slack, api_recalls, previous_recalls, new_recalls,
                   notification_limit, prioritized_recalls, loop_i, successful_notifications,
                   deliveries, steps, snapshot_at_start, previous_fetch>>

\* line 480
Save ==
    /\ pc = "identified"
    /\ file' = save_previous_recalls(SnapshotWindow(api_recalls))
    /\ steps' = Append(steps, "save")
    /\ pc' = "saved"
    /\ UNCHANGED <<clsVars, newVars, should_use_slack, api_recalls, previous_recalls, new_recalls,
                   notification_limit, prioritized_recalls, loop_i, successful_notifications,
                   deliveries, snapshot_at_start, previous_fetch>>

\* lines 483-485: NOTIFICATION_LIMIT is read, then the run branches on new_recalls
ReadLimit ==
    /\ pc = "saved"
    /\ notification_limit' \in 0..MaxLimit
    /\ pc' = IF new_recalls # <<>> THEN "prioritize" ELSE "no_news"
    /\ UNCHANGED <<clsVars, newVars, file, should_use_slack, api_recalls, previous_recalls, new_recalls,
                   prioritized_recalls, loop_i, successful_notifications, deliveries, steps,
                   snapshot_at_start, previous_fetch>>

\* lines 487-500
Prioritize ==
    /\ pc = "prioritize"
    /\ prioritized_recalls' = Prioritized(new_recalls)
    /\ successful_notifications' = 0
    /\ loop_i' = 0
    /\ steps' = Append(steps, "prioritize")
    /\ pc' = "deliver"
    /\ UNCHANGED <<clsVars, newVars, file, should_use_slack, api_recalls, previous_recalls, new_recalls,
                   notification_limit, deliveries, snapshot_at_start, previous_fetch>>

\* one turn of the loop of lines 502-515: the recall is formatted, then sent to
\* Slack or printed
Deliver ==
    /\ pc = "deliver"
    /\ loop_i < Len(Selected(prioritized_recalls, notification_limit))
    /\ \E success \in IF should_use_slack THEN SendOutcomes ELSE {TRUE} :
          /\ deliveries' = Append(deliveries,
                 [ kind     |-> "recall",
                   recall   |-> prioritized_recalls[loop_i + 1],
                   priority |-> determine_priority(prioritized_recalls[loop_i + 1]),
                   via      |-> IF should_use_slack THEN "slack" ELSE "console",
                   success  |-> success ])
          /\ successful_notifications' = TallyAfter(successful_notifications, success)
    /\ loop_i' = loop_i + 1
    /\ steps' = steps \o <<"format", "deliver">>
    /\ UNCHANGED <<clsVars, newVars, pc, file, should_use_slack, api_recalls, previous_recalls, new_recalls,
                   notification_limit, prioritized_recalls, snapshot_at_start, previous_fetch>>

\* line 517: the loop is over and the tally is reported
Tally ==
    /\ pc = "deliver"
    /\ loop_i = Len(Selected(prioritized_recalls, notification_limit))
    /\ steps' = Append(steps, "tally")
    /\ pc' = "stats"
    /\ UNCHANGED <<clsVars, newVars, file, should_use_slack, api_recalls, previous_recalls, new_recalls,
                   notification_limit, prioritized_recalls, loop_i, successful_notifications,
                   deliveries, snapshot_at_start, previous_fetch>>

\* lines 520-527: no statistics are due
SkipStats ==
    /\ pc = "stats"
    /\ pc' = "done"
    /\ UNCHANGED <<clsVars, newVars, file, should_use_slack, api_recalls, previous_recalls, new_recalls,
                   notification_limit, prioritized_recalls, loop_i, successful_notifications,
                   deliveries, steps, snapshot_at_start, previous_fetch>>

\* lines 525-536: statistics are due (a Monday, "always" or SEND_STATS_NOW); they
\* are generated over a wider fetch and sent to Slack or printed
SendStats ==
    /\ pc = "stats"
    /\ \E success \in IF should_use_slack THEN SendOutcomes ELSE {TRUE} :
          deliveries' = Append(deliveries,
              [ kind    |-> "stats",
                via     |-> IF should_use_slack THEN "slack" ELSE "console",
                success |-> success ])
    /\ steps' = steps \o <<"fetch_stats", "stats">>
    /\ pc' = "done"
    /\ UNCHANGED <<clsVars, newVars, file, should_use_slack, api_recalls, previous_recalls, new_recalls,
                   notification_limit, prioritized_recalls, loop_i, successful_notifications,
                   snapshot_at_start, previous_fetch>>

\* lines 538-541: no new recalls, and no summary asked for
NoNews ==
    /\ pc = "no_news"
    /\ pc' = "done"
    /\ UNCHANGED <<clsVars, newVars, file, should_use_slack, api_recalls, previous_recalls, new_recalls,
                   notification_limit, prioritized_recalls, loop_i, successful_notifications,
                   deliveries, steps, snapshot_at_start, previous_fetch>>

\* lines 541-549: no new recalls, and SEND_SUMMARY_WHEN_NO_NEWS is true
SendSummary ==
    /\ pc = "no_news"
    /\ \E success \in IF should_use_slack THEN SendOutcomes ELSE {TRUE} :
          deliveries' = Append(deliveries,
              [ kind     |-> "summary",
                recall   |-> Newest(api_recalls),
                priority |-> determine_priority(Newest(api_recalls)),
                via      |-> IF should_use_slack THEN "slack" ELSE "console",
                success  |-> success ])
    /\ steps' = steps \o <<"format", "deliver_summary">>
    /\ pc' = "done"
    /\ UNCHANGED <<clsVars, newVars, file, should_use_slack, api_recalls, previous_recalls, new_recalls,
                   notification_limit, prioritized_recalls, loop_i, successful_notifications,
                   snapshot_at_start, previous_fetch>>

-----------------------------------------------------------------------------
(* One call of identify_new_recalls on arguments of its own *)

\* the records the novelty detector is tried on: two descriptions, two dates,
\* and records without a date or without a description
NewRecallPool ==
    { [product_description |-> "cheese", report_date |-> "20240115"],
      [product_description |-> "cheese", report_date |-> "20240201"],
      [product_description |-> "salad",  report_date |-> "20240115"],
      [product_description |-> "salad",  report_date |-> "20231220"],
      [product_description |-> "cheese"],
      [report_date |-> "20240201"] }

MaxCurrent == 2
MaxPrevious == 2

InitNew ==
    /\ current \in SeqsUpTo(NewRecallPool, MaxCurrent)
    /\ previous \in SeqsUpTo(NewRecallPool, MaxPrevious)
    /\ result = <<>>
    /\ new_pc = "input"
    \* the other parts of the program are not run
    /\ recall = EmptyDict
    /\ cls_pc = "idle"
    /\ recall_type = ""
    /\ allergens = <<>>
    /\ priority = ""
    /\ states = <<>>
    /\ pc = "idle"
    /\ file = MissingFile
    /\ should_use_slack = FALSE
    /\ api_recalls = <<>>
    /\ previous_recalls = <<>>
    /\ new_recalls = <<>>
    /\ notification_limit = 0
    /\ prioritized_recalls = <<>>
    /\ loop_i = 0
    /\ successful_notifications = 0
    /\ deliveries = <<>>
    /\ steps = <<>>
    /\ snapshot_at_start = MissingFile
    /\ previous_fetch = <<>>

IdentifyNew ==
    /\ new_pc = "input"
    /\ result' = identify_new_recalls(current, previous)
    /\ new_pc' = "returned"
    /\ UNCHANGED <<current, previous, clsVars, runVars>>

-----------------------------------------------------------------------------
(* The classification pass of format_recall_for_slack, lines 190-207 *)

max_text_length == 1000

\* lines 198-201
Truncate(text) ==
    IF Len(text) > max_text_length
    THEN SubSeq(text, 1, max_text_length) \o "..."
    ELSE text

ReasonTexts ==
    { "undeclared peanut allergen",
      "Listeria monocytogenes contamination",
      "Undeclared milk; possible Salmonella",
      "E. coli O157:H7",
      "e.coli found in lot",
      "Potential SALMONELLA contamination",
      "Clostridium botulinum",
      "botulism risk",
      "foreign material: metal fragments",
      "Pieces of plastic; product mislabeled",
      "Misbranded: label omits almond",
      "Mold and spoilage",
      "Quality defect after processing",
      "Underprocessed product",
      "Unapproved color additive",
      "Illegal residue found during processing",
      "Contains eggs",
      "May contain tree nut traces",
      "Elevated lead levels",
      "" }

ClassificationTexts ==
    { "Class I", "Class II", "Class III", "CLASS II", "Not Yet Classified", "" }

DistributionTexts ==
    { "Nationwide", "", "shipped to CA and Texas", "Distributed in NY, NJ and Kansas",
      "International", "Arkansas only", "INDIANA and in.",
      "NATIONWIDE retail", "AL, AK and WV", "in or near Maine" }

\* the record of the specification's worked scenario
ScenarioRecall ==
    [ report_date          |-> "20240115",
      reason_for_recall    |-> "undeclared peanut allergen",
      classification       |-> "Class II",
      distribution_pattern |-> "Nationwide" ]

ClassifyInputs ==
    { Merge(Merge(a, b), c) :
        a \in OptionalField("reason_for_recall", ReasonTexts),
        b \in OptionalField("classification", ClassificationTexts),
        c \in OptionalField("distribution_pattern", DistributionTexts) }
    \cup {ScenarioRecall}

InitClassify ==
    /\ recall \in ClassifyInputs
    /\ cls_pc = "input"
    /\ recall_type = ""
    /\ allergens = <<>>
    /\ priority = ""
    /\ states = <<>>
    \* the other parts of the program are not run
    /\ current = <<>>
    /\ previous = <<>>
    /\ result = <<>>
    /\ new_pc = "idle"
    /\ pc = "idle"
    /\ file = MissingFile
    /\ should_use_slack = FALSE
    /\ api_recalls = <<>>
    /\ previous_recalls = <<>>
    /\ new_recalls = <<>>
    /\ notification_limit = 0
    /\ prioritized_recalls = <<>>
    /\ loop_i = 0
    /\ successful_notifications = 0
    /\ deliveries = <<>>
    /\ steps = <<>>
    /\ snapshot_at_start = MissingFile
    /\ previous_fetch = <<>>

Classify ==
    /\ cls_pc = "input"
    /\ LET reason_for_recall    == Truncate(Get(recall, "reason_for_recall", "See product description"))
           distribution_pattern == Get(recall, "distribution_pattern", "Not specified")
       IN  /\ recall_type' = categorize_recall_type(reason_for_recall)
           /\ allergens' = categorize_allergen(reason_for_recall)
           /\ priority' = determine_priority(recall)
           /\ states' = extract_states(distribution_pattern)
    /\ cls_pc' = "classified"
    /\ UNCHANGED <<recall, newVars, runVars>>

NextClassify == Classify

SpecClassify == InitClassify /\ [][NextClassify]_vars

NextNew == IdentifyNew

SpecNew == InitNew /\ [][NextNew]_vars

Next ==
    \/ Start
    \/ Fetch
    \/ ReturnOnEmpty
    \/ Load
    \/ Identify
    \/ Save
    \/ ReadLimit
    \/ Prioritize
    \/ Deliver
    \/ Tally
    \/ SkipStats
    \/ SendStats
    \/ NoNews
    \/ SendSummary

Spec == Init /\ [][Next]_vars

-----------------------------------------------------------------------------
(* Properties of the classifiers, checked under SpecClassify *)

Classified == cls_pc = "classified"

\* the texts the classifiers were given
ReasonOf(r) == Get(r, "reason_for_recall", "")
ClassificationOf(r) == Get(r, "classification", "")

\* C7 as stated: for the scenario record {report_date: "20240115", reason_for_recall:
\* "undeclared peanut allergen", classification: "Class II", distribution_pattern:
\* "Nationwide"} the priority is medium, the recall type allergen, the allergens
\* {peanuts} and the regions {Nationwide}.
C7_ScenarioMedium ==
    (Classified /\ recall = ScenarioRecall) =>
        /\ priority = "medium"
        /\ recall_type = "allergen"
        /\ allergens = <<"peanuts">>
        /\ states = <<"Nationwide">>

\* C7 amended: for the scenario record the priority is high (the reason holds
\* "peanut" and the classification "Class II" holds "class i", both tried before the
\* Class II rules), the recall type allergen, the allergens {peanuts} and the regions
\* {Nationwide}.
C7_ScenarioHigh ==
    (Classified /\ recall = ScenarioRecall) =>
        /\ priority = "high"
        /\ recall_type = "allergen"
        /\ allergens = <<"peanuts">>
        /\ states = <<"Nationwide">>

C7_Witness ==
    /\ Classified
    /\ recall = ScenarioRecall
    /\ priority = "high"
    /\ allergens = <<"peanuts">>

\* the reason holds none of the rule-2 and none of the rule-3 terms
NoSeverityKeyword(r) ==
    /\ ~AnyIn(Lower(ReasonOf(r)), <<"listeria", "e. coli", "e.coli", "salmonella", "botulism">>)
    /\ ~AnyIn(Lower(ReasonOf(r)), <<"peanut", "tree nut", "milk", "egg">>)

\* C8: for a record whose reason holds no severity keyword, a classification of
\* Class II gives medium, and a classification that is neither Class I nor Class II
\* (Class III among them) gives low.
C8_ClassesDistinguished ==
    (Classified /\ NoSeverityKeyword(recall)) =>
        /\ Lower(ClassificationOf(recall)) = "class ii" => priority = "medium"
        /\ Lower(ClassificationOf(recall)) \notin {"class i", "class ii"} => priority = "low"

TypeOrder == <<"allergen", "bacteria", "foreign_material", "mislabeling",
               "quality", "processing", "unauthorized">>

KeywordsOf(type) ==
    LET g == CHOOSE k \in 1..Len(patterns) : patterns[k].name = type
    IN  {patterns[g].keywords[i] : i \in 1..Len(patterns[g].keywords)}

\* a keyword of the type occurs in the text (given in lower case)
TypeOccurs(type, lowered) == \E kw \in KeywordsOf(type) : Contains(lowered, kw)

\* the text categorize_recall_type was given by the classification pass
TypedText == Truncate(Get(recall, "reason_for_recall", "See product description"))

\* C10: the recall type is one of the eight values: the first type of the fixed order
\* with a keyword occurring case-insensitively in the text, and other iff none occurs.
C10_FirstMatchingType ==
    Classified =>
        LET lowered == Lower(TypedText)
        IN  /\ recall_type \in {TypeOrder[k] : k \in 1..Len(TypeOrder)} \cup {"other"}
            /\ recall_type = "other" <=> \A k \in 1..Len(TypeOrder) : ~TypeOccurs(TypeOrder[k], lowered)
            /\ \A k \in 1..Len(TypeOrder) :
                   recall_type = TypeOrder[k] <=>
                       /\ TypeOccurs(TypeOrder[k], lowered)
                       /\ \A j \in 1..(k - 1) : ~TypeOccurs(TypeOrder[j], lowered)

\* a text that matches two types, classified as the earlier one
C10_Witness ==
    /\ Classified
    /\ ReasonOf(recall) = "Illegal residue found during processing"
    /\ recall_type = "processing"

-----------------------------------------------------------------------------
(* Properties of identify_new_recalls, checked under SpecNew *)

Returned == new_pc = "returned"

\* how many times r occurs in seq
Count(seq, r) == Cardinality({i \in 1..Len(seq) : seq[i] = r})

\* the report dates the records of seq carry
DatesOf(seq) == {seq[i].report_date : i \in {j \in 1..Len(seq) : "report_date" \in DOMAIN seq[j]}}

\* the product descriptions of seq, a record without one counting as the empty text
DescriptionsOf(seq) == {Get(seq[i], "product_description", "") : i \in 1..Len(seq)}

\* r carries a report date strictly greater than the greatest one of seq
ExceedsMaxDate(r, seq) ==
    /\ "report_date" \in DOMAIN r
    /\ DatesOf(seq) # {}
    /\ \A d \in DatesOf(seq) : StrLess(d, r.report_date)

NewByClaim(r, seq) ==
    \/ Get(r, "product_description", "") \notin DescriptionsOf(seq)
    \/ ExceedsMaxDate(r, seq)

\* C1: identify_new_recalls returns exactly the records of current whose description
\* is absent from the descriptions of previous or whose report date is strictly greater
\* than the greatest report date among previous (each as often as current holds it);
\* a missing description counts as the empty text, and the greatest date is taken over
\* the previous records that carry one.
C1_ExactlyTheNew ==
    Returned =>
        \A r \in NewRecallPool :
            Count(result, r) = IF NewByClaim(r, previous) THEN Count(current, r) ELSE 0

\* a matching description is excluded at the greatest previous date and included above it
C1_Witness ==
    /\ Returned
    /\ previous = << [product_description |-> "cheese", report_date |-> "20240115"] >>
    /\ current = << [product_description |-> "cheese", report_date |-> "20240115"],
                    [product_description |-> "cheese", report_date |-> "20240201"] >>
    /\ result = << [product_description |-> "cheese", report_date |-> "20240201"] >>

\* C2: with previous empty every record of current is returned, none dropped and none
\* added, and for any inputs the returned list is in descending order of report date,
\* a missing date counting as "00000000".
C2_AllWhenEmptyAndSorted ==
    Returned =>
        /\ previous = <<>> =>
              /\ Len(result) = Len(current)
              /\ \A r \in NewRecallPool : Count(result, r) = Count(current, r)
        /\ \A i \in 1..(Len(result) - 1) :
              ~StrLess(Get(result[i], "report_date", "00000000"),
                       Get(result[i + 1], "report_date", "00000000"))

\* previous is empty and the list returned is current put in order
C2_Witness ==
    /\ Returned
    /\ previous = <<>>
    /\ current = << [product_description |-> "cheese"],
                    [product_description |-> "cheese", report_date |-> "20240201"] >>
    /\ result = << [product_description |-> "cheese", report_date |-> "20240201"],
                   [product_description |-> "cheese"] >>

-----------------------------------------------------------------------------
(* Properties of the runs of main(), checked under Spec *)

\* the recall notifications of this run, in the order they were attempted
RecallDeliveries == SelectSeq(deliveries, LAMBDA d : d.kind = "recall")

\* C3: the snapshot never holds more than 50 records, and once a run that fetched a
\* non-empty list is over, the snapshot is the first min(50, length) records of that
\* fetch in fetch order, whatever it held when the run started.
C3_SnapshotIsFetchWindow ==
    /\ Len(file.recalls) <= 50
    /\ (pc = "done" /\ api_recalls # <<>>) =>
          /\ file.state = "json"
          /\ Len(file.recalls) = Min(50, Len(api_recalls))
          /\ \A k \in 1..Len(file.recalls) : file.recalls[k] = api_recalls[k]

\* a fetch of 51 records replaces a snapshot of 2 other records by its first 50
C3_Witness ==
    /\ pc = "done"
    /\ Len(api_recalls) = 51
    /\ Len(previous_recalls) = 2
    /\ snapshot_at_start.recalls = previous_recalls
    /\ Len(file.recalls) = 50
    /\ file.recalls[50] = api_recalls[50]

C5_EmptyFetchStops ==
    (steps # <<>> /\ api_recalls = <<>>) =>
        /\ pc \in {"fetched", "done"}
        /\ steps = <<"fetch">>
        /\ deliveries = <<>>
        /\ file = snapshot_at_start

\* a run that ended on an empty fetch and left a snapshot of earlier records alone
C5_Witness ==
    /\ pc = "done"
    /\ api_recalls = <<>>
    /\ steps = <<"fetch">>
    /\ file.state = "json"
    /\ file.recalls # <<>>

\* C6: with k = min(notification_limit, number of new recalls), the loop attempts
\* the delivery of the first k prioritized recalls, once each and in order, whatever
\* the earlier attempts returned, and the tally is the number of attempts that
\* succeeded, so it lies in 0..k.
C6_EveryRecallAttemptedOnce ==
    LET k == Min(notification_limit, Len(new_recalls))
    IN  /\ pc = "deliver" => Len(RecallDeliveries) = loop_i /\ loop_i <= k
        /\ pc \in {"stats", "done"} => Len(RecallDeliveries) = k
        /\ \A j \in 1..Len(RecallDeliveries) : RecallDeliveries[j].recall = prioritized_recalls[j]
        /\ successful_notifications =
              Cardinality({j \in 1..Len(RecallDeliveries) : RecallDeliveries[j].success})
        /\ successful_notifications \in 0..k

\* the first delivery failed, the second was attempted all the same and succeeded
C6_Witness ==
    /\ pc = "done"
    /\ Len(RecallDeliveries) = 2
    /\ ~RecallDeliveries[1].success
    /\ RecallDeliveries[2].success
    /\ successful_notifications = 1

-----------------------------------------------------------------------------
(* Properties of extract_states, checked under SpecClassify *)

\* the text extract_states was given by the classification pass
DistributionText == Get(recall, "distribution_pattern", "Not specified")

Letters == UpperChars \o LowerChars
AlphaNumeric == {CharAt(Letters \o "0123456789_", k) : k \in 1..(Len(Letters) + 11)}

\* abbr stands in text as a token: at an edge of the text or next to a character
\* that is no letter, digit or underscore, on either side
TokenIn(text, abbr) ==
    \E a \in 1..Len(text) :
        /\ a + 1 <= Len(text)
        /\ SubSeq(text, a, a + 1) = abbr
        /\ a > 1 => CharAt(text, a - 1) \notin AlphaNumeric
        /\ a + 2 <= Len(text) => CharAt(text, a + 2) \notin AlphaNumeric

AbbrSet == {state_abbrs[k] : k \in 1..Len(state_abbrs)}

\* an abbreviation token or a full state name, in any case, is in the text
SomeStateIn(text) ==
    \/ \E abbr \in AbbrSet : TokenIn(text, abbr)
    \/ \E k \in 1..Len(state_names) : Contains(Lower(text), Lower(state_names[k]))

SaysNationwide(text) ==
    Contains(Lower(text), "nationwide") \/ Contains(Lower(text), "national")

\* the letters in alphabetical order, for the order of two abbreviations
Alphabet == "ABCDEFGHIJKLMNOPQRSTUVWXYZ"
AlphaPos(c) == CHOOSE k \in 1..26 : CharAt(Alphabet, k) = c
Precedes(a, b) ==
    26 * AlphaPos(CharAt(a, 1)) + AlphaPos(CharAt(a, 2))
        < 26 * AlphaPos(CharAt(b, 1)) + AlphaPos(CharAt(b, 2))

\* C11: extract_states returns exactly [Nationwide] iff the text holds "nationwide" or
\* "national" in any case; exactly [Unspecified] iff it does not and holds no state
\* abbreviation token and no full state name; and otherwise a non-empty list of state
\* abbreviations in strictly ascending order (sorted, no duplicates), with neither
\* sentinel in it. "Nationwide" gives [Nationwide], "" gives [Unspecified] and
\* "shipped to CA and Texas" gives [CA, TX].
C11_RegionsOrSentinel ==
    Classified =>
        /\ states = <<"Nationwide">> <=> SaysNationwide(DistributionText)
        /\ states = <<"Unspecified">> <=>
              ~SaysNationwide(DistributionText) /\ ~SomeStateIn(DistributionText)
        /\ states \notin {<<"Nationwide">>, <<"Unspecified">>} =>
              /\ Len(states) >= 1
              /\ \A k \in 1..Len(states) : states[k] \in AbbrSet
              /\ \A k \in 1..(Len(states) - 1) : Precedes(states[k], states[k + 1])
        /\ DistributionText = "Nationwide" => states = <<"Nationwide">>
        /\ DistributionText = "" => states = <<"Unspecified">>
        /\ DistributionText = "shipped to CA and Texas" => states = <<"CA", "TX">>

\* a token and a full name found in one text, returned in order
C11_Witness ==
    /\ Classified
    /\ DistributionText = "shipped to CA and Texas"
    /\ states = <<"CA", "TX">>

-----------------------------------------------------------------------------
(* A run after a run that fetched the same records, checked under Spec *)

\* this run has compared its fetch with the snapshot
Identified == \E k \in 1..Len(steps) : steps[k] = "identify"

\* the run before this one fetched records, and this run fetched the same ones
SameFetchAgain ==
    /\ previous_fetch # <<>>
    /\ api_recalls = previous_fetch

\* C12: when two consecutive runs fetch the same non-empty list of records, of any
\* length up to the fetch limit of 100, the second run identifies no new recall and
\* sends no recall notification.
C12_RerunIsQuiet ==
    (SameFetchAgain /\ Identified) =>
        /\ new_recalls = <<>>
        /\ RecallDeliveries = <<>>

====
